---- MODULE Spec2Model ----
(***************************************************************************)
(* Model of the Task Badger Celery integration (src/taskbadger/celery.py)  *)
(* with the "safe" facade (src/taskbadger/safe_sdk.py) and the SDK calls   *)
(* it wraps (src/taskbadger/sdk.py).                                       *)
(*                                                                         *)
(* One action is one call of a signal handler, of a facade function or of  *)
(* an SDK call made by the wrapped work body.  Handlers of different       *)
(* executions interleave at handler granularity.  Every remote call has a  *)
(* nondeterministic outcome ("ok" / "error").                              *)
(***************************************************************************)
EXTENDS Integers, Sequences, FiniteSets, TLC

\* ------------------------------------------------------------------ bounds
\* Number of execution contexts (celery requests) alive in the process.
NumExecs == 2
\* Number of task IDs the remote service can hand out.
MaxTasks == 4
\* Cache(maxsize=...): 128 in the code (celery.py:41), scaled down here so
\* that the size pressure is reachable.
maxsize == 1
\* Number of tasks application code creates through the facade directly.
MaxFacadeTasks == 2

Execs == 1..NumExecs
Ids == 1..MaxTasks
NoId == 0

\* --------------------------------------------------------------- constants
KWARG_PREFIX == "taskbadger_"
TB_KWARGS_ARG == "taskbadger_kwargs"
IGNORE_ARGS == {TB_KWARGS_ARG, "taskbadger_task", "taskbadger_task_id"}

StatusEnum ==
    {"pending", "pre_processing", "processing", "post_processing",
     "success", "error", "cancelled", "stale"}

TERMINAL_STATES == {"success", "error", "cancelled", "stale"}

\* The status the wrapped work body sets in this model: Task.success(), as in
\* the example of the Task docstring (celery.py:91-99).
BodyStatuses == {"success"}

\* ------------------------------------------------------------------- data
\* A mapping (task data) is a set of leaves [path, val]: {x: 1} is
\* {[path |-> <<"x">>, val |-> "1"]}.
EmptyData == {}
InitialData == {[path |-> <<"x">>, val |-> "1"]}

IsPrefix(p, q) == Len(p) <= Len(q) /\ SubSeq(q, 1, Len(p)) = p

\* Leaf-level overlay of b over a: a leaf of a survives unless b writes at,
\* above or below its path.
merge(a, b) ==
    b \cup {l \in a : \A m \in b : ~IsPrefix(m.path, l.path) /\ ~IsPrefix(l.path, m.path)}

ExceptionData(einfo) == {[path |-> <<"exception">>, val |-> einfo]}

\* A task object as the client holds it: models.Task wrapped by sdk.Task.
\* has_data = FALSE is data UNSET / None in the response (models/task.py).
NoTask == [id |-> NoId, status |-> "none", has_data |-> FALSE, data |-> EmptyData]

MkTask(id, status, has_data, data) ==
    [id |-> id, status |-> status, has_data |-> has_data, data |-> data]

\* ---------------------------------------------------------------- options
\* A dict of tracking options is a set of [key, val] with one val per key.
OptKeys(m) == {x.key : x \in m}

OptGet(m, k) == (CHOOSE x \in m : x.key = k).val

\* dict.update(b)
OptUpdate(m, b) == b \cup {x \in m : x.key \notin OptKeys(b)}

\* m.setdefault(k, v): a value already there is kept.
OptSetDefault(m, k, v) == IF k \in OptKeys(m) THEN m ELSE m \cup {[key |-> k, val |-> v]}

\* m[k] = v
OptSet(m, k, v) == OptUpdate(m, {[key |-> k, val |-> v]})

\* what m.pop(k, ...) leaves
OptPop(m, k) == {x \in m : x.key # k}

\* The options a create was called with: the name and the keyword arguments.
NoOptions == [name |-> "", kwargs |-> {}]

\* ------------------------------------------------------------------ cache
\* collections.OrderedDict as a sequence of [key, value] in insertion order.
CacheKeys(c) == {c[i].key : i \in 1..Len(c)}

CacheIndex(c, k) == CHOOSE i \in 1..Len(c) : c[i].key = k

\* Cache.set that moves the key it writes to the newest end.
CacheSetMoveToEnd(c, k, v) ==
    Append(SelectSeq(c, LAMBDA x : x.key # k), [key |-> k, value |-> v])

\* Cache.set: a new key is appended, an existing key keeps its place.
CacheSet(c, k, v) ==
    IF k \in CacheKeys(c)
    THEN [c EXCEPT ![CacheIndex(c, k)] = [key |-> k, value |-> v]]
    ELSE Append(c, [key |-> k, value |-> v])

\* Cache.unset
CacheUnset(c, k) == SelectSeq(c, LAMBDA x : x.key # k)

\* Cache.get
CacheGet(c, k) == IF k \in CacheKeys(c) THEN c[CacheIndex(c, k)].value ELSE NoTask

\* Cache.prune with popitem(last=True): the newest entry goes.
CachePruneNewest(c) == IF Len(c) > maxsize THEN SubSeq(c, 1, Len(c) - 1) ELSE c

\* Cache.prune: popitem(last=False), once.
CachePrune(c) == IF Len(c) > maxsize THEN Tail(c) ELSE c

VARIABLES
    settings,       \* Badger.current.settings: "None" or "Settings"
    session_client, \* Badger.current.session().client is set (the session is open)
    headers,        \* per execution: the header bag
    request_task,   \* per execution: request["taskbadger_task"], the memoized task
    cache,          \* safe_get_task.cache
    remote,         \* the tasks held by the remote service
    ctask,          \* the registered task definition: its taskbadger_kwargs dict
                    \* (if declared) and its other taskbadger_* attributes
    last            \* what the last call did: remote calls issued, result, exception

vars == <<settings, session_client, headers, request_task, cache, remote, ctask, last>>

\* hasattr(signal_sender, "taskbadger_task"): execution 1 runs a task whose
\* base is taskbadger.Task, the other executions run plain celery tasks.
has_taskbadger_task(e) == e = 1

\* The options of execution 1's task carry data ({x: 1}); a task created
\* without data comes back with data null.
declares_data(e) == e = 1

\* The state the operators below thread through one call: the variables, plus
\* the remote calls issued so far, for each of them whether the session was
\* open when it was issued, and whether an exception is propagating.
World ==
    [settings |-> settings, session_client |-> session_client, headers |-> headers,
     request_task |-> request_task, cache |-> cache, remote |-> remote,
     ctask |-> ctask, calls |-> <<>>, open |-> <<>>, sent |-> <<>>, session_calls |-> <<>>,
     options |-> NoOptions,
     raised |-> FALSE]

Call(fn, id, status, ok) == [fn |-> fn, id |-> id, status |-> status, ok |-> ok]

\* ---------------------------------------------------------------- sdk.py
\* Mug.is_configured: settings is not None.
is_configured(s) == s # "None"

\* _make_args: dataclasses.asdict(settings) raises when settings is None,
\* before any request is sent.
make_args_raises(s) == ~is_configured(s)

FreeIds(rem) == {i \in Ids : rem[i] = NoTask}

NewId(rem) == CHOOSE i \in FreeIds(rem) : \A j \in FreeIds(rem) : i <= j

\* sdk.create_task: one POST; a non-2xx answer raises (_check_response).
create_task(w, status, has_data, oc) ==
    IF make_args_raises(w.settings)
    THEN [w |-> w, raised |-> TRUE, task |-> NoTask]
    ELSE IF oc = "ok" /\ FreeIds(w.remote) # {}
    THEN LET id == NewId(w.remote)
             t == MkTask(id, status, has_data, IF has_data THEN InitialData ELSE EmptyData)
         IN  [w |-> [w EXCEPT !.remote[id] = t,
                              !.calls = Append(@, Call("create", id, status, TRUE)),
                              !.open = Append(@, w.session_client),
                              !.sent = Append(@, IF has_data THEN InitialData ELSE EmptyData)],
              raised |-> FALSE, task |-> t]
    ELSE [w |-> [w EXCEPT !.calls = Append(@, Call("create", NoId, status, FALSE)),
                              !.open = Append(@, w.session_client),
                              !.sent = Append(@, IF has_data THEN InitialData ELSE EmptyData)],
          raised |-> TRUE, task |-> NoTask]

\* sdk.get_task: one GET.
get_task(w, id, og) ==
    IF make_args_raises(w.settings)
    THEN [w |-> w, raised |-> TRUE, task |-> NoTask]
    ELSE IF og = "ok" /\ id \in Ids /\ w.remote[id] # NoTask
    THEN [w |-> [w EXCEPT !.calls = Append(@, Call("get", id, "none", TRUE)),
                              !.open = Append(@, w.session_client),
                              !.sent = Append(@, EmptyData)],
          raised |-> FALSE, task |-> w.remote[id]]
    ELSE [w |-> [w EXCEPT !.calls = Append(@, Call("get", id, "none", FALSE)),
                              !.open = Append(@, w.session_client),
                              !.sent = Append(@, EmptyData)],
          raised |-> TRUE, task |-> NoTask]

\* sdk.update_task: one PATCH; status "none" and empty data are left UNSET
\* (data = UNSET if not data), and an UNSET field is not changed.
update_task(w, id, status, data, ou) ==
    IF make_args_raises(w.settings)
    THEN [w |-> w, raised |-> TRUE, task |-> NoTask]
    ELSE IF ou = "ok" /\ id \in Ids /\ w.remote[id] # NoTask
    THEN LET old == w.remote[id]
             t == MkTask(id,
                         IF status = "none" THEN old.status ELSE status,
                         IF data = EmptyData THEN old.has_data ELSE TRUE,
                         IF data = EmptyData THEN old.data ELSE data)
         IN  [w |-> [w EXCEPT !.remote[id] = t,
                              !.calls = Append(@, Call("update", id, status, TRUE)),
                              !.open = Append(@, w.session_client),
                              !.sent = Append(@, data)],
              raised |-> FALSE, task |-> t]
    ELSE [w |-> [w EXCEPT !.calls = Append(@, Call("update", id, status, FALSE)),
                              !.open = Append(@, w.session_client),
                              !.sent = Append(@, data)],
          raised |-> TRUE, task |-> NoTask]

\* ----------------------------------------------------------- safe_sdk.py
\* create_task_safe without its try/except: the exception of create_task
\* reaches the caller.
create_task_safe_uncaught(w, status, has_data, oc) ==
    IF ~is_configured(w.settings)
    THEN [w |-> w, result |-> NoTask]
    ELSE LET r == create_task(w, status, has_data, oc)
         IN  [w |-> [r.w EXCEPT !.raised = r.raised],
              result |-> IF r.raised THEN NoTask ELSE r.task]

\* A facade call returns [w, result]; result NoTask is None.
create_task_safe(w, status, has_data, oc) ==
    IF ~is_configured(w.settings)
    THEN [w |-> w, result |-> NoTask]
    ELSE LET r == create_task(w, status, has_data, oc)
         IN  [w |-> r.w, result |-> IF r.raised THEN NoTask ELSE r.task]

update_task_safe(w, id, status, data, ou) ==
    IF ~is_configured(w.settings)
    THEN [w |-> w, result |-> NoTask]
    ELSE LET r == update_task(w, id, status, data, ou)
         IN  [w |-> r.w, result |-> IF r.raised THEN NoTask ELSE r.task]

\* -------------------------------------------------------------- celery.py
NoRequestTask == [task |-> NoTask, shared |-> FALSE]

\* The cache entry of key k is replaced or removed: a memoized task that was
\* the cached object is that object no longer.
UnshareKey(rt, k) ==
    [e \in Execs |-> IF rt[e].task.id = k THEN [rt[e] EXCEPT !.shared = FALSE] ELSE rt[e]]

UnshareGone(rt, c) ==
    [e \in Execs |-> IF rt[e].task.id \in CacheKeys(c) THEN rt[e]
                     ELSE [rt[e] EXCEPT !.shared = FALSE]]

\* safe_get_task under cached(cache_none=True): a None result is cached too.
safe_get_task_cache_none(w, id, og) ==
    IF id \in CacheKeys(w.cache)
    THEN [w |-> w, result |-> CacheGet(w.cache, id)]
    ELSE LET r == get_task(w, id, og)
         IN  [w |-> [r.w EXCEPT !.cache = CacheSet(@, id, r.task)], result |-> r.task]

\* cached(cache_none=False) around get_task with `except Exception`: a hit
\* returns the cached object, a miss calls through and caches a result that
\* is not None.
safe_get_task(w, id, og) ==
    IF id \in CacheKeys(w.cache)
    THEN [w |-> w, result |-> CacheGet(w.cache, id)]
    ELSE LET r == get_task(w, id, og)
         IN  IF r.raised
             THEN [w |-> r.w, result |-> NoTask]
             ELSE [w |-> [r.w EXCEPT !.cache = CacheSet(@, id, r.task)], result |-> r.task]

\* Task.taskbadger_task_id
taskbadger_task_id(w, e) ==
    IF w.headers[e].present THEN w.headers[e].task_id ELSE NoId

\* Task.taskbadger_task that looks the task up on every access.
taskbadger_task_unmemoized(w, e, og) ==
    IF taskbadger_task_id(w, e) = NoId
    THEN [w |-> w, result |-> NoTask]
    ELSE LET r == safe_get_task(w, taskbadger_task_id(w, e), og)
         IN  IF r.result # NoTask
             THEN [w |-> [r.w EXCEPT !.request_task[e] = [task |-> r.result, shared |-> TRUE]],
                   result |-> r.result]
             ELSE r

\* Task.taskbadger_task
taskbadger_task(w, e, og) ==
    IF taskbadger_task_id(w, e) = NoId
    THEN [w |-> w, result |-> NoTask]
    ELSE IF w.request_task[e].task # NoTask
    THEN [w |-> w, result |-> w.request_task[e].task]
    ELSE LET r == safe_get_task(w, taskbadger_task_id(w, e), og)
         IN  IF r.result # NoTask
             THEN [w |-> [r.w EXCEPT !.request_task[e] = [task |-> r.result, shared |-> TRUE]],
                   result |-> r.result]
             ELSE r

\* Session.__enter__ / Session.__exit__ of Badger.current.session(); each call
\* is logged with the state the session was in when it was made.
SessionCall(fn, was_open) == [fn |-> fn, was_open |-> was_open]

session_enter(w) ==
    [w EXCEPT !.session_client = TRUE,
              !.session_calls = Append(@, SessionCall("enter", w.session_client))]

session_exit(w) ==
    [w EXCEPT !.session_client = FALSE,
              !.session_calls = Append(@, SessionCall("exit", w.session_client))]

\* enter_session without the test of session.client.
enter_session_unguarded(w) ==
    IF ~is_configured(w.settings) THEN w ELSE session_enter(w)

enter_session(w) ==
    IF ~is_configured(w.settings) THEN w
    ELSE IF ~w.session_client THEN session_enter(w)
    ELSE w

\* exit_session without the early return for a header bag that has no task ID.
exit_session_without_id_check(w, e) ==
    IF ~w.headers[e].present THEN w
    ELSE LET task_id == w.headers[e].task_id
         IN  IF ~is_configured(w.settings) THEN w
             ELSE LET c == CachePrune(CacheUnset(w.cache, task_id))
                      w1 == [w EXCEPT !.cache = c, !.request_task = UnshareGone(@, c)]
                  IN  IF w1.session_client THEN session_exit(w1) ELSE w1

\* exit_session that prunes but forgets to unset the entry of its own task.
exit_session_without_unset(w, e) ==
    IF ~w.headers[e].present THEN w
    ELSE LET task_id == w.headers[e].task_id
         IN  IF task_id = NoId \/ ~is_configured(w.settings) THEN w
             ELSE LET c == CachePrune(w.cache)
                      w1 == [w EXCEPT !.cache = c, !.request_task = UnshareGone(@, c)]
                  IN  IF w1.session_client THEN session_exit(w1) ELSE w1

\* exit_session that keeps the session open while the task of another execution
\* is still cached.
exit_session_counting(w, e) ==
    IF ~w.headers[e].present THEN w
    ELSE LET task_id == w.headers[e].task_id
         IN  IF task_id = NoId \/ ~is_configured(w.settings) THEN w
             ELSE LET c == CachePrune(CacheUnset(w.cache, task_id))
                      w1 == [w EXCEPT !.cache = c, !.request_task = UnshareGone(@, c)]
                  IN  IF w1.session_client /\ c = <<>> THEN session_exit(w1) ELSE w1

\* exit_session that also drops the task ID from the header bag.
exit_session_clearing_header(w, e) ==
    IF ~w.headers[e].present THEN w
    ELSE LET task_id == w.headers[e].task_id
         IN  IF task_id = NoId \/ ~is_configured(w.settings) THEN w
             ELSE LET c == CachePrune(CacheUnset(w.cache, task_id))
                      w1 == [w EXCEPT !.cache = c, !.request_task = UnshareGone(@, c),
                                      !.headers[e].task_id = NoId]
                  IN  IF w1.session_client THEN session_exit(w1) ELSE w1

\* exit_session that prunes twice.
exit_session_pruning_twice(w, e) ==
    IF ~w.headers[e].present THEN w
    ELSE LET task_id == w.headers[e].task_id
         IN  IF task_id = NoId \/ ~is_configured(w.settings) THEN w
             ELSE LET c == CachePrune(CachePrune(CacheUnset(w.cache, task_id)))
                      w1 == [w EXCEPT !.cache = c, !.request_task = UnshareGone(@, c)]
                  IN  IF w1.session_client THEN session_exit(w1) ELSE w1

exit_session(w, e) ==
    IF ~w.headers[e].present THEN w
    ELSE LET task_id == w.headers[e].task_id
         IN  IF task_id = NoId \/ ~is_configured(w.settings) THEN w
             ELSE LET c == CachePrune(CacheUnset(w.cache, task_id))
                      w1 == [w EXCEPT !.cache = c, !.request_task = UnshareGone(@, c)]
                  IN  IF w1.session_client THEN session_exit(w1) ELSE w1

\* Task.data: self._task.data.additional_properties raises when data is
\* UNSET or None.
task_data_raises(task) == ~task.has_data

\* is_terminal with ERROR forgotten in the set of terminal states.
is_terminal_without_error(task) == task.status \in {"success", "cancelled", "stale"}

\* is_terminal that takes SUCCESS for the only final status.
is_terminal_only_success(task) == task.status = "success"

\* The terminal guard of _update_task.
is_terminal(task) == task.status \in TERMINAL_STATES

\* The outcomes of the remote gets of one _update_task call, in order: every
\* get succeeds, every get fails, or the first fails and the second succeeds.
GetOutcomes == {"ok", "error", "error_ok"}

FirstGet(og) == IF og = "ok" THEN "ok" ELSE "error"

SecondGet(og) == IF og = "error" THEN "error" ELSE "ok"

\* _update_task that sends {exception: einfo} alone.
_update_task_exception_only(w, e, status, einfo, og, ou) ==
    IF ~w.headers[e].present THEN w
    ELSE LET task_id == w.headers[e].task_id
         IN  IF task_id = NoId THEN w
             ELSE LET r == IF has_taskbadger_task(e)
                               THEN taskbadger_task(taskbadger_task(w, e, FirstGet(og)).w,
                                                    e, SecondGet(og))
                               ELSE safe_get_task(w, task_id, FirstGet(og))
                      task == r.result
                  IN  IF task = NoTask THEN r.w
                      ELSE IF is_terminal(task) THEN r.w
                      ELSE LET w1 == enter_session(r.w)
                           IN  IF einfo # "" /\ task_data_raises(task)
                               THEN [w1 EXCEPT !.raised = TRUE]
                               ELSE LET data == IF einfo # ""
                                                THEN ExceptionData(einfo)
                                                ELSE EmptyData
                                        u == update_task_safe(w1, task.id, status, data, ou)
                                    IN  IF u.result # NoTask
                                        THEN [u.w EXCEPT
                                                !.cache = CacheSet(@, task_id, u.result),
                                                !.request_task = UnshareKey(@, task_id)]
                                        ELSE u.w

\* _update_task that does not refresh the cache after its update.
_update_task_without_refresh(w, e, status, einfo, og, ou) ==
    IF ~w.headers[e].present THEN w
    ELSE LET task_id == w.headers[e].task_id
         IN  IF task_id = NoId THEN w
             ELSE LET r == IF has_taskbadger_task(e)
                               THEN taskbadger_task(taskbadger_task(w, e, FirstGet(og)).w,
                                                    e, SecondGet(og))
                               ELSE safe_get_task(w, task_id, FirstGet(og))
                      task == r.result
                  IN  IF task = NoTask THEN r.w
                      ELSE IF is_terminal(task) THEN r.w
                      ELSE LET w1 == enter_session(r.w)
                           IN  IF einfo # "" /\ task_data_raises(task)
                               THEN [w1 EXCEPT !.raised = TRUE]
                               ELSE LET data == IF einfo # ""
                                                THEN merge(task.data, ExceptionData(einfo))
                                                ELSE EmptyData
                                        u == update_task_safe(w1, task.id, status, data, ou)
                                    IN  u.w

\* einfo "" is None; str(einfo) otherwise.  hasattr(signal_sender,
\* "taskbadger_task") evaluates the property, and signal_sender.taskbadger_task
\* evaluates it again: a Task subclass is asked for its task twice.
_update_task(w, e, status, einfo, og, ou) ==
    IF ~w.headers[e].present THEN w
    ELSE LET task_id == w.headers[e].task_id
         IN  IF task_id = NoId THEN w
             ELSE LET r == IF has_taskbadger_task(e)
                               THEN taskbadger_task(taskbadger_task(w, e, FirstGet(og)).w,
                                                    e, SecondGet(og))
                               ELSE safe_get_task(w, task_id, FirstGet(og))
                      task == r.result
                  IN  IF task = NoTask THEN r.w
                      ELSE IF is_terminal(task) THEN r.w
                      ELSE LET w1 == enter_session(r.w)
                           IN  IF einfo # "" /\ task_data_raises(task)
                               THEN [w1 EXCEPT !.raised = TRUE]
                               ELSE LET data == IF einfo # ""
                                                THEN merge(task.data, ExceptionData(einfo))
                                                ELSE EmptyData
                                        u == update_task_safe(w1, task.id, status, data, ou)
                                    IN  IF u.result # NoTask
                                        THEN [u.w EXCEPT
                                                !.cache = CacheSet(@, task_id, u.result),
                                                !.request_task = UnshareKey(@, task_id)]
                                        ELSE u.w

\* Sender names: one in celery's own namespace, one missing from the task
\* registry (celery.current_app.tasks.get(sender) is None), one registered.
SenderNames == {"celery.backend_cleanup", "app.unregistered", "app.task"}

StartsWithCelery(sender) == sender = "celery.backend_cleanup"

Registered(sender) == sender = "app.task"

\* should_track requiring both the opt-in and the auto-track default.
should_track_both(manual_track, auto_track) == manual_track /\ auto_track

\* "should track": the per-call opt-in (headers["taskbadger_track"]) or the
\* celery system's auto_track_tasks, both read at publish only.
should_track(manual_track, auto_track) == manual_track \/ auto_track

\* A task definition: has_kwargs says whether taskbadger_kwargs is declared,
\* attrs are its other declared taskbadger_* attributes, keyed by attribute name.
PlainTask == [has_kwargs |-> FALSE, taskbadger_kwargs |-> {}, attrs |-> {}]

\* dir(ctask) of a task whose base is taskbadger.Task.
BuiltinAttrs == {"taskbadger_task", "taskbadger_task_id", "name"}

Dir(ct) ==
    BuiltinAttrs \cup OptKeys(ct.attrs) \cup (IF ct.has_kwargs THEN {TB_KWARGS_ARG} ELSE {})

\* attr.startswith(KWARG_PREFIX)
StartsWithKwargPrefix(attr) ==
    attr \in {"taskbadger_kwargs", "taskbadger_task", "taskbadger_task_id", "taskbadger_a"}

\* attr.removeprefix(KWARG_PREFIX)
removeprefix(attr) ==
    CASE attr = "taskbadger_kwargs" -> "kwargs"
      [] attr = "taskbadger_task" -> "task"
      [] attr = "taskbadger_task_id" -> "task_id"
      [] attr = "taskbadger_a" -> "a"
      [] OTHER -> attr

\* getattr(ctask, attr) for an attribute of dir(ctask)
GetAttr(ct, attr) ==
    IF attr \in OptKeys(ct.attrs) THEN OptGet(ct.attrs, attr) ELSE "object"

\* The loop over dir(ctask): the declared attributes that become options.
AttrOptions(ct) ==
    {[key |-> removeprefix(attr), val |-> GetAttr(ct, attr)] :
        attr \in {a \in Dir(ct) : StartsWithKwargPrefix(a) /\ a \notin IGNORE_ARGS}}

\* MergedOptions with the precedence reversed: a declared option wins over a
\* schedule-time option of the same key.
MergedOptionsDeclaredWins(start, found, ct, tb_kwargs) ==
    OptUpdate(tb_kwargs, IF found THEN OptUpdate(start, AttrOptions(ct)) ELSE start)

\* The options before the status and name injection (celery.py:153-159), for
\* the dict kwargs starts from, the task definition (found or not) and the
\* schedule-time options headers["taskbadger_kwargs"].
MergedOptions(start, found, ct, tb_kwargs) ==
    OptUpdate(IF found THEN OptUpdate(start, AttrOptions(ct)) ELSE start, tb_kwargs)

\* task_publish_handler that does not put the task ID into the header bag.
task_publish_handler_without_meta(w, e, sender, manual_track, auto_track, tb_kwargs, has_data, oc) ==
    IF StartsWithCelery(sender) \/ ~w.headers[e].present \/ ~is_configured(w.settings)
    THEN w
    ELSE IF ~should_track(manual_track, auto_track) THEN w
    ELSE LET found == Registered(sender)
             aliased == found /\ w.ctask.has_kwargs
             start == IF aliased THEN w.ctask.taskbadger_kwargs ELSE {}
             merged == MergedOptions(start, found, w.ctask, tb_kwargs)
             with_status == OptSet(merged, "status", "pending")
             name == IF "name" \in OptKeys(with_status)
                     THEN OptGet(with_status, "name") ELSE sender
             kwargs == OptPop(with_status, "name")
             w0 == [w EXCEPT !.ctask.taskbadger_kwargs = IF aliased THEN kwargs ELSE @,
                             !.options = [name |-> name, kwargs |-> kwargs]]
             r == create_task_safe(w0, OptGet(kwargs, "status"), has_data, oc)
         IN  IF r.result # NoTask
             THEN IF ~Registered(sender) THEN [r.w EXCEPT !.raised = TRUE] ELSE r.w
             ELSE r.w

\* tb_kwargs is headers.get("taskbadger_kwargs", {}).  kwargs is the declared
\* dict itself when the task definition declares one, so what the handler
\* writes into kwargs is written into the task definition.
task_publish_handler(w, e, sender, manual_track, auto_track, tb_kwargs, has_data, oc) ==
    IF StartsWithCelery(sender) \/ ~w.headers[e].present \/ ~is_configured(w.settings)
    THEN w
    ELSE IF ~should_track(manual_track, auto_track) THEN w
    ELSE LET found == Registered(sender)
             aliased == found /\ w.ctask.has_kwargs
             start == IF aliased THEN w.ctask.taskbadger_kwargs ELSE {}
             merged == MergedOptions(start, found, w.ctask, tb_kwargs)
             with_status == OptSet(merged, "status", "pending")
             name == IF "name" \in OptKeys(with_status)
                     THEN OptGet(with_status, "name") ELSE sender
             kwargs == OptPop(with_status, "name")
             w0 == [w EXCEPT !.ctask.taskbadger_kwargs = IF aliased THEN kwargs ELSE @,
                             !.options = [name |-> name, kwargs |-> kwargs]]
             r == create_task_safe(w0, OptGet(kwargs, "status"), has_data, oc)
         IN  IF r.result # NoTask
             THEN LET w1 == [r.w EXCEPT !.headers[e].task_id = r.result.id]
                  IN  \* ctask.update_state(...) with ctask None
                      IF ~Registered(sender) THEN [w1 EXCEPT !.raised = TRUE] ELSE w1
             ELSE r.w

\* A handler that calls exit_session after _update_task: an exception of
\* _update_task skips it.
then_exit_session(w, e) == IF w.raised THEN w ELSE exit_session(w, e)

task_prerun_handler(w, e, og, ou) == _update_task(w, e, "processing", "", og, ou)

\* task_success_handler that forgets exit_session.
task_success_handler_without_exit(w, e, og, ou) == _update_task(w, e, "success", "", og, ou)

task_success_handler(w, e, og, ou) ==
    then_exit_session(_update_task(w, e, "success", "", og, ou), e)

task_failure_handler(w, e, einfo, og, ou) ==
    then_exit_session(_update_task(w, e, "error", einfo, og, ou), e)

task_retry_handler(w, e, einfo, og, ou) ==
    then_exit_session(_update_task(w, e, "error", einfo, og, ou), e)

\* ---------------------------------------------------------------- actions
Outcomes == {"ok", "error"}

SettingsValues == {"None", "Settings"}

\* "" is einfo None.
EinfoValues == {"", "E"}

Last(op, e, w, result) ==
    [op |-> op, e |-> e, calls |-> w.calls, raised |-> w.raised, result |-> result,
     options |-> w.options, open |-> w.open, sent |-> w.sent,
     session_calls |-> w.session_calls]

Commit(w, op, e, result) ==
    /\ settings' = w.settings
    /\ session_client' = w.session_client
    /\ headers' = w.headers
    /\ request_task' = w.request_task
    /\ cache' = w.cache
    /\ remote' = w.remote
    /\ ctask' = w.ctask
    /\ last' = Last(op, e, w, result)

Init ==
    /\ settings = "None"
    /\ session_client = FALSE
    /\ headers \in [Execs -> [present : BOOLEAN, task_id : {NoId}]]
    /\ request_task = [e \in Execs |-> NoRequestTask]
    /\ cache = <<>>
    /\ remote = [i \in Ids |-> NoTask]
    /\ ctask = PlainTask
    /\ last = [op |-> "init", e |-> 0, calls |-> <<>>, raised |-> FALSE, result |-> NoTask,
               options |-> NoOptions, open |-> <<>>, sent |-> <<>>, session_calls |-> <<>>]

\* Mug.bind(settings): init() binds Settings; bind(None) unbinds.
Bind(s) ==
    /\ s # settings
    /\ Commit([World EXCEPT !.settings = s], "bind", 0, NoTask)

\* The host starts another attempt of execution e (after a retry): a new
\* request context carrying the same header bag.
NewAttempt(e) ==
    /\ request_task[e] # NoRequestTask
    /\ Commit([World EXCEPT !.request_task[e] = NoRequestTask], "new_attempt", e, NoTask)

\* The host discards execution e and schedules another one in its place, with
\* a header bag that carries no task ID yet.
NewExecution(e) ==
    /\ headers[e].task_id # NoId
    /\ Commit([World EXCEPT !.headers[e].task_id = NoId, !.request_task[e] = NoRequestTask],
              "new_execution", e, NoTask)

\* before_task_publish fires once per header bag.
Publish(e, sender, manual_track, auto_track, oc) ==
    /\ headers[e].task_id = NoId
    /\ Commit(task_publish_handler(World, e, sender, manual_track, auto_track, {},
                                   declares_data(e), oc),
              "publish", e, NoTask)

Prerun(e, og, ou) == Commit(task_prerun_handler(World, e, og, ou), "prerun", e, NoTask)

Success(e, og, ou) == Commit(task_success_handler(World, e, og, ou), "success", e, NoTask)

Failure(e, einfo, og, ou) ==
    Commit(task_failure_handler(World, e, einfo, og, ou), "failure", e, NoTask)

Retry(e, einfo, og, ou) ==
    Commit(task_retry_handler(World, e, einfo, og, ou), "retry", e, NoTask)

\* The work body reads self.taskbadger_task.
BodyAccessor(e, og) ==
    /\ has_taskbadger_task(e)
    /\ LET r == taskbadger_task(World, e, og)
       IN  Commit(r.w, "accessor", e, r.result)

\* sdk.Task.update on the memoized task object: update_task, then
\* self._task = task._task; an exception goes to the work body.
Task_update(w, e, status, ou) ==
    LET r == update_task(w, w.request_task[e].task.id, status, EmptyData, ou)
    IN  IF r.raised THEN [r.w EXCEPT !.raised = TRUE]
        ELSE [r.w EXCEPT
                !.request_task[e].task = r.task,
                !.cache = IF w.request_task[e].shared THEN CacheSet(@, r.task.id, r.task) ELSE @]

BodyTaskUpdate(e, status, ou) ==
    /\ has_taskbadger_task(e)
    /\ request_task[e].task # NoTask
    /\ Commit(Task_update(World, e, status, ou), "task_update", e, NoTask)

\* The work body updates its task by ID: update_task_safe(self.taskbadger_task_id, ...).
BodyUpdateById(e, status, ou) ==
    /\ headers[e].present
    /\ headers[e].task_id # NoId
    /\ LET r == update_task_safe(World, headers[e].task_id, status, EmptyData, ou)
       IN  Commit(r.w, "update_by_id", e, r.result)

\* Direct calls of the facade by application code.
CreateTaskSafe(has_data, oc) ==
    /\ Cardinality(Ids \ FreeIds(remote)) < MaxFacadeTasks
    /\ LET r == create_task_safe(World, "pending", has_data, oc)
       IN  Commit(r.w, "create_task_safe", 0, r.result)

UpdateTaskSafe(id, status, ou) ==
    /\ remote[id] # NoTask
    /\ LET r == update_task_safe(World, id, status, EmptyData, ou)
       IN  Commit(r.w, "update_task_safe", 0, r.result)

SafeGetTask(id, og) ==
    /\ remote[id] # NoTask
    /\ LET r == safe_get_task(World, id, og)
       IN  Commit(r.w, "safe_get_task", 0, r.result)

Next ==
    \/ Bind("Settings")
    \/ \E e \in Execs : NewAttempt(e)
    \/ \E e \in Execs, sender \in SenderNames, manual_track \in BOOLEAN,
          auto_track \in BOOLEAN, oc \in Outcomes :
            Publish(e, sender, manual_track, auto_track, oc)
    \/ \E e \in Execs, og \in GetOutcomes, ou \in Outcomes : Prerun(e, og, ou)
    \/ \E e \in Execs, og \in GetOutcomes, ou \in Outcomes : Success(e, og, ou)
    \/ \E e \in Execs, einfo \in EinfoValues, og \in GetOutcomes, ou \in Outcomes :
            Failure(e, einfo, og, ou)
    \/ \E e \in Execs, einfo \in EinfoValues, og \in GetOutcomes, ou \in Outcomes :
            Retry(e, einfo, og, ou)
    \/ \E e \in Execs, og \in Outcomes : BodyAccessor(e, og)
    \/ \E e \in Execs, status \in BodyStatuses, ou \in Outcomes : BodyTaskUpdate(e, status, ou)
    \/ \E e \in Execs, status \in BodyStatuses, ou \in Outcomes : BodyUpdateById(e, status, ou)

Spec == Init /\ [][Next]_vars

\* The facade on its own: application code calling the three "safe"
\* operations, with the configuration bound and unbound in between.
NextFacade ==
    \/ \E s \in SettingsValues : Bind(s)
    \/ \E has_data \in BOOLEAN, oc \in Outcomes : CreateTaskSafe(has_data, oc)
    \/ \E id \in Ids, status \in BodyStatuses, ou \in Outcomes : UpdateTaskSafe(id, status, ou)
    \/ \E id \in Ids, og \in Outcomes : SafeGetTask(id, og)

InitFacade == Init /\ \A e \in Execs : ~headers[e].present

SpecFacade == InitFacade /\ [][NextFacade]_vars

\* Executions replaced by new ones while their tasks are still cached: every
\* remote call succeeds, the work body does nothing.
NextReuse ==
    \/ Bind("Settings")
    \/ \E e \in Execs : NewExecution(e)
    \/ \E e \in Execs : Publish(e, "app.task", TRUE, FALSE, "ok")
    \/ \E e \in Execs : Prerun(e, "ok", "ok")
    \/ \E e \in Execs : Success(e, "ok", "ok")

InitReuse == Init /\ \A e \in Execs : headers[e].present

SpecReuse == InitReuse /\ [][NextReuse]_vars

\* The Cache class on its own: set, unset and prune called in any order on
\* one Cache(maxsize), with task IDs as keys and tasks as values.
CacheValueStatuses == {"pending", "processing"}

CacheOp(op, c, v) ==
    /\ cache' = c
    /\ last' = [op |-> op, e |-> 0, calls |-> <<>>, raised |-> FALSE, result |-> v,
                options |-> NoOptions, open |-> <<>>, sent |-> <<>>, session_calls |-> <<>>]
    /\ UNCHANGED <<settings, session_client, headers, request_task, remote, ctask>>

Cache_set(k, status) ==
    LET v == MkTask(k, status, FALSE, EmptyData)
    IN  CacheOp("cache_set", CacheSet(cache, k, v), v)

Cache_unset(k) ==
    /\ k \in CacheKeys(cache)
    /\ CacheOp("cache_unset", CacheUnset(cache, k), CacheGet(cache, k))

\* The value recorded is the one of the pair popitem returned, NoTask when
\* nothing was popped.
Cache_prune ==
    LET c == CachePrune(cache)
        gone == {i \in 1..Len(cache) : cache[i].key \notin CacheKeys(c)}
    IN  CacheOp("cache_prune", c,
                IF gone = {} THEN NoTask ELSE cache[CHOOSE i \in gone : TRUE].value)

NextCache ==
    \/ \E k \in Ids, status \in CacheValueStatuses : Cache_set(k, status)
    \/ \E k \in Ids : Cache_unset(k)
    \/ Cache_prune

SpecCache == InitFacade /\ [][NextCache]_vars

\* The cache used the way the handlers use it: lookups through Cache.get and
\* safe_get_task next to set, unset and prune.
Cache_get(k) == CacheOp("cache_get", cache, CacheGet(cache, k))

NextEviction ==
    \/ Bind("Settings")
    \/ \E has_data \in BOOLEAN : CreateTaskSafe(has_data, "ok")
    \/ \E id \in Ids, og \in Outcomes : SafeGetTask(id, og)
    \/ \E k \in Ids : Cache_get(k)
    \/ \E k \in Ids, status \in CacheValueStatuses : Cache_set(k, status)
    \/ \E k \in Ids : Cache_unset(k)
    \/ Cache_prune

SpecEviction == InitFacade /\ [][NextEviction]_vars

\* Executions that retry: an attempt ends with the retry signal, after which
\* the host drops the attempt's request context and runs the next attempt
\* with the same header bag, or with the success signal.
RetryAndRequeue(e, einfo, og, ou) ==
    Commit([task_retry_handler(World, e, einfo, og, ou) EXCEPT
                !.request_task[e] = NoRequestTask],
           "retry", e, NoTask)

NextRetry ==
    \/ Bind("Settings")
    \/ \E e \in Execs, oc \in Outcomes : Publish(e, "app.task", TRUE, FALSE, oc)
    \/ \E e \in Execs, og \in GetOutcomes, ou \in Outcomes : Prerun(e, og, ou)
    \/ \E e \in Execs, og \in Outcomes : BodyAccessor(e, og)
    \/ \E e \in Execs, einfo \in EinfoValues, og \in GetOutcomes, ou \in Outcomes :
            RetryAndRequeue(e, einfo, og, ou)
    \/ \E e \in Execs, og \in GetOutcomes, ou \in Outcomes : Success(e, og, ou)

SpecRetry == InitReuse /\ [][NextRetry]_vars

\* The option merge of the publish handler: task definitions with and without
\* a declared taskbadger_kwargs dict and taskbadger_* attributes, published
\* repeatedly (apply_async of a taskbadger.Task) with schedule-time options.
Opt(k, v) == [key |-> k, val |-> v]

DeclaredBags ==
    {{Opt("a", "1"), Opt("b", "2")}, {Opt("name", "N"), Opt("status", "success")}}

DeclaredAttrs == {{}, {Opt("taskbadger_a", "9")}}

TaskDefinitions ==
    [has_kwargs : {TRUE}, taskbadger_kwargs : DeclaredBags, attrs : DeclaredAttrs]
        \cup [has_kwargs : {FALSE}, taskbadger_kwargs : {{}}, attrs : DeclaredAttrs]

ScheduleKwargs ==
    {{}, {Opt("b", "3"), Opt("c", "4")}, {Opt("name", "M"), Opt("status", "cancelled")}}

PublishWith(e, tb_kwargs, oc) ==
    /\ headers[e].task_id = NoId
    /\ Commit(task_publish_handler(World, e, "app.task", TRUE, FALSE, tb_kwargs,
                                   declares_data(e), oc),
              "publish", e, NoTask)

NextOptions ==
    \/ Bind("Settings")
    \/ \E e \in Execs : NewExecution(e)
    \/ \E e \in Execs, tb_kwargs \in ScheduleKwargs, oc \in Outcomes :
            PublishWith(e, tb_kwargs, oc)

InitOptions ==
    /\ settings = "None"
    /\ session_client = FALSE
    /\ headers = [e \in Execs |-> [present |-> TRUE, task_id |-> NoId]]
    /\ request_task = [e \in Execs |-> NoRequestTask]
    /\ cache = <<>>
    /\ remote = [i \in Ids |-> NoTask]
    /\ ctask \in TaskDefinitions
    /\ last = [op |-> "init", e |-> 0, calls |-> <<>>, raised |-> FALSE, result |-> NoTask,
               options |-> NoOptions, open |-> <<>>, sent |-> <<>>, session_calls |-> <<>>]

SpecOptions == InitOptions /\ [][NextOptions]_vars

\* The lifecycle of tasks that declare or are scheduled with options: every
\* remote get succeeds, the work body does nothing.
NextStatus ==
    \/ Bind("Settings")
    \/ \E e \in Execs, tb_kwargs \in ScheduleKwargs, oc \in Outcomes :
            PublishWith(e, tb_kwargs, oc)
    \/ \E e \in Execs, ou \in Outcomes : Prerun(e, "ok", ou)
    \/ \E e \in Execs, ou \in Outcomes : Success(e, "ok", ou)
    \/ \E e \in Execs, einfo \in EinfoValues, ou \in Outcomes : Failure(e, einfo, "ok", ou)
    \/ \E e \in Execs, einfo \in EinfoValues, ou \in Outcomes : Retry(e, einfo, "ok", ou)

SpecStatus == InitOptions /\ [][NextStatus]_vars

\* Tasks that carry data of several shapes when the failure or retry signal
\* arrives: tracking is configured and each execution already has its task.
Leaf(path, val) == [path |-> path, val |-> val]

DataValues ==
    {EmptyData,
     InitialData,
     {Leaf(<<"exception", "code">>, "1")},
     {Leaf(<<"x">>, "1"), Leaf(<<"exception">>, "old")}}

InitMerge ==
    /\ settings = "Settings"
    /\ session_client = FALSE
    /\ headers = [e \in Execs |-> [present |-> TRUE, task_id |-> e]]
    /\ request_task = [e \in Execs |-> NoRequestTask]
    /\ cache = <<>>
    /\ \E has_data \in BOOLEAN, d \in DataValues :
          remote = [i \in Ids |->
                      IF i \in Execs
                      THEN MkTask(i, "pending", has_data, IF has_data THEN d ELSE EmptyData)
                      ELSE NoTask]
    /\ ctask = PlainTask
    /\ last = [op |-> "init", e |-> 0, calls |-> <<>>, raised |-> FALSE, result |-> NoTask,
               options |-> NoOptions, open |-> <<>>, sent |-> <<>>, session_calls |-> <<>>]

NextMerge ==
    \/ \E e \in Execs, og \in GetOutcomes, ou \in Outcomes : Prerun(e, og, ou)
    \/ \E e \in Execs, einfo \in EinfoValues, og \in GetOutcomes, ou \in Outcomes :
            Failure(e, einfo, og, ou)
    \/ \E e \in Execs, einfo \in EinfoValues, og \in GetOutcomes, ou \in Outcomes :
            Retry(e, einfo, og, ou)

SpecMerge == InitMerge /\ [][NextMerge]_vars

\* The host runs one execution at a time, tracking configured throughout:
\* publish, pre-run, the work body, then success, failure or retry; after a
\* retry another attempt of the same execution, after success or failure the
\* next execution.  The step taken last tells where the sequence stands.
BodyOps == {"accessor", "task_update", "update_by_id"}

AfterOf(ops, e) == last.op \in ops /\ last.e = e

\* The host stops scheduling once this many tasks were created.
MaxSequentialTasks == 3

CanPublish ==
    /\ last.op \in {"bind", "new_execution"}
    /\ Cardinality(Ids \ FreeIds(remote)) < MaxSequentialTasks

CanPrerun(e) == AfterOf({"publish", "new_attempt"}, e)

InBody(e) == AfterOf({"prerun"} \cup BodyOps, e)

NextSequential ==
    \/ last.op = "init" /\ Bind("Settings")
    \/ \E e \in Execs, manual_track \in BOOLEAN, oc \in Outcomes :
          CanPublish /\ Publish(e, "app.task", manual_track, FALSE, oc)
    \/ \E e \in Execs, og \in GetOutcomes, ou \in Outcomes :
          CanPrerun(e) /\ Prerun(e, og, ou)
    \/ \E e \in Execs : InBody(e) /\ BodyAccessor(e, "ok")
    \/ \E e \in Execs, status \in BodyStatuses :
          InBody(e) /\ BodyTaskUpdate(e, status, "ok")
    \/ \E e \in Execs, status \in BodyStatuses :
          InBody(e) /\ BodyUpdateById(e, status, "ok")
    \/ \E e \in Execs, og \in GetOutcomes, ou \in Outcomes :
          InBody(e) /\ Success(e, og, ou)
    \/ \E e \in Execs, einfo \in EinfoValues, og \in GetOutcomes, ou \in Outcomes :
          InBody(e) /\ Failure(e, einfo, og, ou)
    \/ \E e \in Execs, einfo \in EinfoValues, og \in GetOutcomes, ou \in Outcomes :
          InBody(e) /\ Retry(e, einfo, og, ou)
    \/ \E e \in Execs : AfterOf({"retry"}, e) /\ NewAttempt(e)
    \/ \E e \in Execs : AfterOf({"success", "failure"}, e) /\ NewExecution(e)

SpecSequential == InitReuse /\ [][NextSequential]_vars

\* ----------------------------------------------------------------- claims
HandlerOps == {"publish", "prerun", "success", "failure", "retry"}

\* The handlers that go through _update_task.
SignalOps == {"prerun", "success", "failure", "retry"}

\* The handlers that end with exit_session.
TerminalOps == {"success", "failure", "retry"}

UpdateIssued(calls, id) ==
    \E k \in 1..Len(calls) : calls[k].fn = "update" /\ calls[k].id = id

CreateIssued(calls) == \E k \in 1..Len(calls) : calls[k].fn = "create"

HasId(e) == headers[e].present /\ headers[e].task_id # NoId

\* The task the signal step just taken for execution e resolved, read off the
\* state before the step: the memoized copy, else the cached copy, else what
\* the remote get of the step returned.
ResolvedInStep(e) ==
    LET id == headers[e].task_id
    IN  IF has_taskbadger_task(e) /\ request_task[e].task # NoTask THEN request_task[e].task
        ELSE IF id \in CacheKeys(cache) THEN CacheGet(cache, id)
        ELSE IF \E k \in 1..Len(last'.calls) : last'.calls[k] = Call("get", id, "none", TRUE)
             THEN remote[id]
        ELSE NoTask

TerminalResolvedStep(e) ==
    /\ last'.op \in SignalOps
    /\ last'.e = e
    /\ HasId(e)
    /\ ResolvedInStep(e).status \in TERMINAL_STATES

\* C1: a signal step whose resolved task is terminal issues no remote update,
\* and _update_task leaves the cached task as it was: an existing cache entry is
\* untouched, and after a cache miss the entry is the terminal task as fetched.
C1_TerminalNoUpdate ==
    [][\A e \in Execs :
         TerminalResolvedStep(e) =>
            /\ ~UpdateIssued(last'.calls, headers[e].task_id)
            /\ (last'.op = "prerun" =>
                  \/ cache' = cache
                  \/ /\ headers[e].task_id \notin CacheKeys(cache)
                     /\ cache' = Append(cache, [key |-> headers[e].task_id,
                                                value |-> remote[headers[e].task_id]]))]_vars

\* A pre-run handler has fetched a task that is already terminal: one get, no
\* update, and the terminal task is now cached.
C1_Witness ==
    \E e \in Execs :
        /\ last.op = "prerun" /\ last.e = e /\ HasId(e)
        /\ last.calls = <<Call("get", headers[e].task_id, "none", TRUE)>>
        /\ CacheGet(cache, headers[e].task_id).status \in TERMINAL_STATES

\* C2: once the remote task's status is terminal, no handler issues a remote
\* update for that task ID.
C2_TerminalNeverOverwritten ==
    [][\A i \in Ids :
         (remote[i].status \in TERMINAL_STATES /\ last'.op \in HandlerOps)
            => ~UpdateIssued(last'.calls, i)]_vars

\* C3: no lifecycle handler ends in an exception.
C3_NoHandlerRaises == last.op \in HandlerOps => ~last.raised

FacadeWriteOps == {"create_task_safe", "update_task_safe"}

\* C4: create_task_safe and update_task_safe never raise; they return None when
\* the remote call failed and the task the remote call returned when it succeeded.
C4_FacadeIsolation ==
    last.op \in FacadeWriteOps =>
        /\ ~last.raised
        /\ \A k \in 1..Len(last.calls) :
              IF last.calls[k].ok
              THEN last.result # NoTask /\ last.result = remote[last.calls[k].id]
              ELSE last.result = NoTask

\* A facade call whose remote call failed returned None without raising.
C4_Witness ==
    /\ last.op \in FacadeWriteOps
    /\ Len(last.calls) = 1 /\ ~last.calls[1].ok
    /\ last.result = NoTask /\ ~last.raised

FacadeOps == {"create_task_safe", "update_task_safe", "safe_get_task"}

\* C5: unconfigured, each of the three facade operations returns None, makes no
\* remote call and raises nothing.
C5_UnconfiguredFacadeAbsent ==
    (last.op \in FacadeOps /\ settings = "None") =>
        (last.result = NoTask /\ last.calls = <<>> /\ ~last.raised)

\* C6: the publish handler issues a remote create exactly when the name is not
\* celery's own, the header bag is present, tracking is configured and the task
\* is opted in or auto-tracked; an untracked publish leaves the bag without ID.
C6_PublishCreatesIff ==
    [][\A e \in Execs, sender \in SenderNames, manual_track \in BOOLEAN,
          auto_track \in BOOLEAN, oc \in Outcomes :
         Publish(e, sender, manual_track, auto_track, oc) =>
            /\ CreateIssued(last'.calls) <=>
                  /\ sender # "celery.backend_cleanup"
                  /\ headers[e].present
                  /\ settings # "None"
                  /\ (manual_track \/ auto_track)
            /\ (~manual_track /\ ~auto_track) =>
                  (~CreateIssued(last'.calls) /\ headers'[e].task_id = NoId)]_vars

\* A publish with tracking configured and a header bag present issued no create.
C6_Witness ==
    /\ last.op = "publish" /\ last.calls = <<>>
    /\ settings # "None" /\ headers[last.e].present /\ headers[last.e].task_id = NoId

\* C7: a failed create leaves the header bag without task ID, and a signal for
\* an execution whose bag has no task ID issues no remote call and leaves the
\* session and the cache as they were.
C7_NoIdNoOp ==
    [][/\ (last'.op = "publish" /\ CreateIssued(last'.calls) /\ ~last'.calls[1].ok)
            => headers'[last'.e].task_id = NoId
       /\ \A e \in Execs :
            (last'.op \in SignalOps /\ last'.e = e /\ headers[e].task_id = NoId) =>
                /\ last'.calls = <<>>
                /\ session_client' = session_client
                /\ cache' = cache
                /\ ~last'.raised]_vars

\* A terminal signal for an execution without task ID ran while the session
\* was open and the cache held an entry, and left both.
C7_Witness ==
    \E e \in Execs :
        /\ last.op \in TerminalOps /\ last.e = e
        /\ headers[e].present /\ headers[e].task_id = NoId
        /\ settings # "None" /\ session_client /\ cache # <<>>

Writes(calls) == SelectSeq(calls, LAMBDA c : c.fn # "get")

FreshExecution(e) ==
    /\ headers[e].present /\ headers[e].task_id = NoId
    /\ request_task[e] = NoRequestTask
    /\ settings # "None" /\ FreeIds(remote) # {}

\* C8: from any state in which execution e is still to be published, publish
\* (tracked), pre-run, success with every remote call succeeding issue
\* create(PENDING) returning T1, update(T1, PROCESSING), update(T1, SUCCESS) in
\* that order; afterwards the session is closed and the cache has no entry T1.
C8_ScenarioB ==
    \A e \in Execs, manual_track \in BOOLEAN, auto_track \in BOOLEAN :
        (FreshExecution(e) /\ (manual_track \/ auto_track)) =>
            LET T1 == NewId(remote)
                w1 == task_publish_handler(World, e, "app.task", manual_track, auto_track,
                                           {}, declares_data(e), "ok")
                w2 == task_prerun_handler([w1 EXCEPT !.calls = <<>>], e, "ok", "ok")
                w3 == task_success_handler([w2 EXCEPT !.calls = <<>>], e, "ok", "ok")
            IN  /\ w1.calls = <<Call("create", T1, "pending", TRUE)>>
                /\ w1.remote[T1].status = "pending"
                /\ w1.headers[e].task_id = T1
                /\ Writes(w2.calls) = <<Call("update", T1, "processing", TRUE)>>
                /\ w2.remote[T1].status = "processing"
                /\ Writes(w3.calls) = <<Call("update", T1, "success", TRUE)>>
                /\ w3.remote[T1].status = "success"
                /\ ~w3.session_client
                /\ T1 \notin CacheKeys(w3.cache)
                /\ ~w1.raised /\ ~w2.raised /\ ~w3.raised

\* The success handler has sent SUCCESS for a task that was PROCESSING, closed
\* the session and evicted the entry.
C8_Witness ==
    \E e \in Execs :
        /\ last.op = "success" /\ last.e = e /\ HasId(e)
        /\ last.calls = <<Call("update", headers[e].task_id, "success", TRUE)>>
        /\ remote[headers[e].task_id].status = "success"
        /\ ~session_client
        /\ headers[e].task_id \notin CacheKeys(cache)

\* C9: after a terminal handler has returned for an execution whose bag carries
\* task ID T, with tracking configured, the cache has no entry for T.
C9_EvictedAfterTerminal ==
    (last.op \in TerminalOps /\ ~last.raised /\ HasId(last.e) /\ settings # "None")
        => headers[last.e].task_id \notin CacheKeys(cache)

\* A terminal handler whose remote update failed has returned, and the entry of
\* its task is gone.
C9_Witness ==
    \E e \in Execs :
        /\ last.op \in TerminalOps /\ last.e = e /\ ~last.raised /\ HasId(e)
        /\ \E k \in 1..Len(last.calls) : last.calls[k].fn = "update" /\ ~last.calls[k].ok
        /\ headers[e].task_id \notin CacheKeys(cache)

\* C10: right after exit_session has pruned, the cache holds at most maxsize
\* entries.
C10_CacheBounded ==
    (last.op \in TerminalOps /\ ~last.raised /\ HasId(last.e) /\ settings # "None")
        => Len(cache) <= maxsize

KeyOrder(c) == [i \in 1..Len(c) |-> c[i].key]

\* C11: set() puts a new key behind every key inserted before it and leaves
\* the order alone for a key already held; prune() on a cache of maxsize + 1
\* entries leaves exactly maxsize entries and removes the entry inserted
\* first; prune() on a cache of at most maxsize entries removes nothing.
C11_PruneOldest ==
    [][/\ last'.op = "cache_set" =>
            IF last'.result.id \in CacheKeys(cache)
            THEN KeyOrder(cache') = KeyOrder(cache)
            ELSE KeyOrder(cache') = Append(KeyOrder(cache), last'.result.id)
       /\ last'.op = "cache_prune" =>
            /\ Len(cache) = maxsize + 1 =>
                  /\ Len(cache') = maxsize
                  /\ cache' = SubSeq(cache, 2, Len(cache))
            /\ Len(cache) <= maxsize => cache' = cache]_vars

\* prune() has just removed the oldest entry of a cache that held maxsize + 1
\* entries.
C11_Witness ==
    /\ last.op = "cache_prune"
    /\ last.result # NoTask
    /\ last.result.id \notin CacheKeys(cache)
    /\ Len(cache) = maxsize

\* C12: safe_get_task for task ID T returns the cached value and makes no remote
\* get when the cache holds T; otherwise it calls through, with one remote get
\* when the client is configured, and caches the result only when it is a
\* task: after a failed get the cache is as before, so the next call misses
\* again.
C12_CachedGet ==
    [][\A id \in Ids, og \in Outcomes :
         SafeGetTask(id, og) =>
            IF id \in CacheKeys(cache)
            THEN /\ last'.result = CacheGet(cache, id)
                 /\ last'.calls = <<>>
                 /\ cache' = cache
            ELSE IF settings = "None"
            THEN last'.calls = <<>> /\ last'.result = NoTask /\ cache' = cache
            ELSE IF og = "ok"
            THEN /\ last'.calls = <<Call("get", id, "none", TRUE)>>
                 /\ last'.result = remote[id]
                 /\ cache' = Append(cache, [key |-> id, value |-> remote[id]])
            ELSE /\ last'.calls = <<Call("get", id, "none", FALSE)>>
                 /\ last'.result = NoTask
                 /\ cache' = cache]_vars

\* A remote get has failed on a miss: the call returned None and the cache has
\* no entry for the task.
C12_Witness ==
    /\ last.op = "safe_get_task"
    /\ Len(last.calls) = 1 /\ last.calls[1].fn = "get" /\ ~last.calls[1].ok
    /\ last.result = NoTask
    /\ last.calls[1].id \notin CacheKeys(cache)

OptionsOfPublish(w, e, tb_kwargs) ==
    task_publish_handler([w EXCEPT !.calls = <<>>, !.options = NoOptions],
                         e, "app.task", TRUE, FALSE, tb_kwargs, declares_data(e), "ok").options

\* C13: the options a publish passes to create depend only on the declared
\* options and on its own schedule-time options: they are the same whether or
\* not another publish of the same task came first, and a publish leaves the
\* task definition as it was.
C13_OptionMergePure ==
    \A e1 \in Execs, e2 \in Execs, tb1 \in ScheduleKwargs, tb2 \in ScheduleKwargs :
        LET w1 == task_publish_handler(World, e1, "app.task", TRUE, FALSE, tb1,
                                       declares_data(e1), "ok")
        IN  /\ w1.ctask = ctask
            /\ OptionsOfPublish(w1, e2, tb2) = OptionsOfPublish(World, e2, tb2)

\* The options declared on the task definition: the taskbadger_kwargs dict,
\* overlaid by the declared attribute taskbadger_a.
DeclaredOptions ==
    LET bag == IF ctask.has_kwargs THEN ctask.taskbadger_kwargs ELSE {}
    IN  {x \in bag : x.key # "a" \/ "taskbadger_a" \notin OptKeys(ctask.attrs)}
            \cup {Opt("a", x.val) : x \in {y \in ctask.attrs : y.key = "taskbadger_a"}}

Injected == {"status", "name"}

\* C14: in the options a publish passes to create, apart from the injected
\* status and name, every schedule-time option is there with its
\* schedule-time value, every declared option whose key is not a
\* schedule-time key is there with its declared value, there is no other key,
\* and none of kwargs, task, task_id (the reserved attributes) is an option.
C14_MergePrecedence ==
    [][\A e \in Execs, tb_kwargs \in ScheduleKwargs, oc \in Outcomes :
         (PublishWith(e, tb_kwargs, oc) /\ settings # "None") =>
            LET kwargs == last'.options.kwargs
            IN  /\ {x \in kwargs : x.key \notin Injected} =
                       {x \in tb_kwargs : x.key \notin Injected}
                          \cup {x \in DeclaredOptions :
                                   x.key \notin Injected /\ x.key \notin OptKeys(tb_kwargs)}
                /\ OptKeys(kwargs) \cap {"kwargs", "task", "task_id"} = {}]_vars

\* A publish has merged declared {a: 1, b: 2} with schedule-time {b: 3, c: 4}.
C14_Witness ==
    /\ last.op = "publish"
    /\ last.options.kwargs =
          {Opt("a", "1"), Opt("b", "3"), Opt("c", "4"), Opt("status", "pending")}
    /\ last.options.name = "app.task"

\* C15: the session is open at every remote call a lifecycle handler issues
\* (the create of publish, the get and the update of _update_task), and closed
\* once a terminal handler has returned for a tracked execution.
C15_SessionBrackets ==
    last.op \in HandlerOps =>
        /\ \A k \in 1..Len(last.open) : last.open[k]
        /\ (last.op \in TerminalOps /\ ~last.raised /\ HasId(last.e) /\ settings # "None")
              => ~session_client

BodyUpdateOps == {"task_update", "update_by_id"}

\* Execution b has had its pre-run update and no terminal handling: its task is
\* PROCESSING remotely and in the cache.
InFlight(b) ==
    /\ HasId(b)
    /\ remote[headers[b].task_id].status = "processing"
    /\ headers[b].task_id \in CacheKeys(cache)
    /\ CacheGet(cache, headers[b].task_id).status = "processing"

C17_RetryThenDropped ==
    [][\A e \in Execs :
         /\ (last'.op = "retry" /\ last'.e = e /\ HasId(e)
                /\ \E k \in 1..Len(last'.calls) :
                       last'.calls[k] = Call("update", headers[e].task_id, "error", TRUE))
               => remote'[headers[e].task_id].status = "error"
         /\ (last'.op \in {"prerun", "success"} /\ last'.e = e /\ HasId(e)
                /\ remote[headers[e].task_id].status = "error")
               => /\ ~UpdateIssued(last'.calls, headers[e].task_id)
                  /\ remote'[headers[e].task_id].status = "error"
                  /\ headers[e].task_id \in CacheKeys(cache')
                        => CacheGet(cache', headers[e].task_id).status = "error"]_vars

\* After a reported retry the success handler has fetched the task, found it in
\* ERROR and sent nothing.
C17_Witness ==
    \E e \in Execs :
        /\ last.op = "success" /\ last.e = e /\ HasId(e)
        /\ last.calls = <<Call("get", headers[e].task_id, "none", TRUE)>>
        /\ remote[headers[e].task_id].status = "error"

StatusOf(op) ==
    CASE op = "publish" -> "pending"
      [] op = "prerun" -> "processing"
      [] op = "success" -> "success"
      [] op \in {"failure", "retry"} -> "error"

\* C18: every create of the publish handler carries PENDING, whatever status
\* the task declares or the caller supplies at schedule time; every update of
\* the pre-run handler carries PROCESSING, of the success handler SUCCESS, of
\* the failure and retry handlers ERROR; a handler issues no other create or
\* update, so none with CANCELLED, STALE, PRE_PROCESSING or POST_PROCESSING.
C18_StatusFixedByHandler ==
    last.op \in HandlerOps =>
        \A k \in 1..Len(last.calls) :
            /\ last.calls[k].fn = (IF last.op = "publish" THEN "create" ELSE "update")
                  => last.calls[k].status = StatusOf(last.op)
            /\ last.calls[k].fn \in (IF last.op = "publish" THEN {"create"} ELSE {"get", "update"})
            /\ last.calls[k].status \notin {"cancelled", "stale", "pre_processing", "post_processing"}

\* A publish whose schedule-time options carried name M and status CANCELLED
\* has created the task M with PENDING.
C18_Witness ==
    /\ last.op = "publish"
    /\ last.options.name = "M"
    /\ Len(last.calls) = 1
    /\ last.calls[1].fn = "create" /\ last.calls[1].status = "pending" /\ last.calls[1].ok

\* C19: the task accessor returns absent with no lookup when the header bag has
\* no task ID; returns the memoized task, with no remote call and whatever the
\* cache holds, once an access of the attempt has returned one; otherwise
\* looks the task up, memoizes the task it found and memoizes nothing when
\* the lookup gave none.  The task-ID accessor is a read of the header bag.
C19_AccessorMemoized ==
    [][\A e \in Execs, og \in Outcomes :
         BodyAccessor(e, og) =>
            /\ taskbadger_task_id(World, e) = (IF headers[e].present THEN headers[e].task_id ELSE NoId)
            /\ IF ~HasId(e)
               THEN /\ last'.result = NoTask /\ last'.calls = <<>>
                    /\ cache' = cache /\ request_task' = request_task
               ELSE IF request_task[e].task # NoTask
               THEN /\ last'.result = request_task[e].task /\ last'.calls = <<>>
                    /\ cache' = cache /\ request_task' = request_task
               ELSE /\ request_task'[e].task = last'.result
                    /\ last'.result = NoTask => cache' = cache
                    /\ last'.result # NoTask =>
                          CacheGet(cache', headers[e].task_id) = last'.result]_vars

\* The accessor has returned the memoized task, without a remote call, while
\* the cache holds a newer copy of it.
C19_Witness ==
    \E e \in Execs :
        /\ last.op = "accessor" /\ last.e = e /\ HasId(e)
        /\ last.calls = <<>>
        /\ last.result # NoTask /\ last.result = request_task[e].task
        /\ headers[e].task_id \in CacheKeys(cache)
        /\ CacheGet(cache, headers[e].task_id) # last.result

\* Execution e is tracked, tracking is configured and no copy of its task
\* (memoized, cached, remote) is terminal: the state in which pre-run arrives.
AwaitingPrerun(e) ==
    /\ HasId(e) /\ is_configured(settings)
    /\ remote[headers[e].task_id] # NoTask
    /\ ~is_terminal(remote[headers[e].task_id])
    /\ request_task[e].task # NoTask => ~is_terminal(request_task[e].task)
    /\ headers[e].task_id \in CacheKeys(cache) =>
          ~is_terminal(CacheGet(cache, headers[e].task_id))

\* Pre-run whose remote update fails; og decides whether the task could be
\* resolved at all.
FailedPrerun(e, og) == [task_prerun_handler(World, e, og, "error") EXCEPT !.calls = <<>>]

\* The failed pre-run returns normally, changes nothing remotely, and leaves
\* the header bag and every entry the cache had as they were.
FailedPrerunLeavesState(e, og) ==
    LET w1 == FailedPrerun(e, og)
    IN  /\ ~w1.raised
        /\ w1.headers = headers
        /\ w1.remote = remote
        /\ \A id \in CacheKeys(cache) :
              id \in CacheKeys(w1.cache) /\ CacheGet(w1.cache, id) = CacheGet(cache, id)

\* After the failed pre-run the success handler sends SUCCESS.
SuccessAfterFailedPrerun(e, og) ==
    LET T == headers[e].task_id
        w2 == task_success_handler(FailedPrerun(e, og), e, "ok", "ok")
    IN  /\ Writes(w2.calls) = <<Call("update", T, "success", TRUE)>>
        /\ w2.remote[T].status = "success"

\* After the failed pre-run the failure handler sends ERROR.
FailureAfterFailedPrerun(e, og, einfo) ==
    LET T == headers[e].task_id
        w2 == task_failure_handler(FailedPrerun(e, og), e, einfo, "ok", "ok")
    IN  /\ Writes(w2.calls) = <<Call("update", T, "error", TRUE)>>
        /\ w2.remote[T].status = "error"

CallsOf(calls, fn) == SelectSeq(calls, LAMBDA c : c.fn = fn)

\* C21: one invocation of a lifecycle handler issues at most one remote
\* create, at most one remote get and at most one remote update, whether the
\* calls succeed or fail and whether or not the sender resolves its task
\* through the taskbadger_task accessor.
C21_NoRetryWithinTransition ==
    last.op \in HandlerOps =>
        /\ Len(CallsOf(last.calls, "create")) <= 1
        /\ Len(CallsOf(last.calls, "get")) <= 1
        /\ Len(CallsOf(last.calls, "update")) <= 1

\* C22: enter_session on an open session changes nothing and enters nothing;
\* two calls in a row are one call; with tracking unconfigured it does
\* nothing; on a closed session with tracking configured it enters once.
C22_EnterSessionIdempotent ==
    LET once == enter_session(World)
        twice == enter_session(once)
    IN  /\ session_client => once = World
        /\ ~is_configured(settings) => once = World
        /\ twice = once
        /\ (is_configured(settings) /\ ~session_client) =>
              once = [World EXCEPT !.session_client = TRUE,
                                   !.session_calls = <<SessionCall("enter", FALSE)>>]
        /\ \A k \in 1..Len(last.session_calls) :
              last.session_calls[k].fn = "enter" => ~last.session_calls[k].was_open

\* A handler has issued its update with the session already open: its
\* enter_session found the session open and entered nothing.
C22_Witness ==
    /\ last.op \in SignalOps
    /\ \E k \in 1..Len(last.calls) : last.calls[k].fn = "update"
    /\ \A k \in 1..Len(last.session_calls) : last.session_calls[k].fn # "enter"
    /\ is_configured(settings)

\* exit_session returns at once for execution e: no header bag, no task ID in
\* it, or tracking unconfigured.
ExitSessionReturnsEarly(e) ==
    ~headers[e].present \/ headers[e].task_id = NoId \/ ~is_configured(settings)

\* The key prune() is about to remove from cache c: the head, when c is over
\* capacity.
PruneVictims(c) == IF Len(c) > maxsize THEN {c[1].key} ELSE {}

HandlerStatuses == {"processing", "success", "error"}

\* The cache as _update_task finds it just before its update for execution e:
\* the lookup, when it missed and its get succeeded, has inserted the task.
CacheBeforeUpdate(e, calls) ==
    LET T == headers[e].task_id
    IN  IF \E k \in 1..Len(calls) : calls[k] = Call("get", T, "none", TRUE)
        THEN CacheSet(cache, T, remote[T])
        ELSE cache

\* C24: when _update_task has issued a remote update for task ID T, a
\* returned task becomes the cache entry of T (every other entry and the order
\* stay), and a failed update leaves the cache as it was before the update.
C24_CacheRefreshedByUpdate ==
    \A e \in Execs, status \in HandlerStatuses, einfo \in EinfoValues,
       og \in GetOutcomes, ou \in Outcomes :
        LET w1 == _update_task(World, e, status, einfo, og, ou)
            T == headers[e].task_id
            n == Len(w1.calls)
        IN  (n > 0 /\ w1.calls[n].fn = "update") =>
                IF w1.calls[n].ok
                THEN /\ CacheGet(w1.cache, T) = w1.remote[T]
                     /\ CacheGet(w1.cache, T).status = status
                     /\ w1.cache = CacheSet(CacheBeforeUpdate(e, w1.calls), T, w1.remote[T])
                ELSE /\ w1.cache = CacheBeforeUpdate(e, w1.calls)
                     /\ T \in CacheKeys(cache) => CacheGet(w1.cache, T) = CacheGet(cache, T)

\* Pre-run has replaced a cached PENDING task with the PROCESSING task its
\* update returned.
C24_Witness ==
    /\ last.op = "prerun" /\ HasId(last.e)
    /\ last.calls = <<Call("update", headers[last.e].task_id, "processing", TRUE)>>
    /\ CacheGet(cache, headers[last.e].task_id) = remote[headers[last.e].task_id]
    /\ CacheGet(cache, headers[last.e].task_id).status = "processing"

Pos(c, k) == CacheIndex(c, k)

\* The key popitem(last=False) would remove from cache c.
NextVictim(c) == IF c = <<>> THEN NoId ELSE c[1].key

\* From cache c to cache d the keys they share keep their relative order and
\* every key new in d lies behind all of them.
OrderKept(c, d) ==
    \A a \in CacheKeys(d), b \in CacheKeys(d) :
        /\ (a \in CacheKeys(c) /\ b \in CacheKeys(c) /\ Pos(c, a) < Pos(c, b))
              => Pos(d, a) < Pos(d, b)
        /\ (a \in CacheKeys(c) /\ b \notin CacheKeys(c)) => Pos(d, a) < Pos(d, b)

\* C25: the order of the cache is the order of insertion: no operation
\* reorders the keys it keeps and a new key goes behind every key held; a
\* lookup (Cache.get, a hit of safe_get_task) changes nothing, a set of a key
\* already held changes only its value, so neither changes the entry prune
\* removes next; prune on a cache over capacity removes the first entry.
C25_InsertionOrderEviction ==
    [][/\ OrderKept(cache, cache')
       /\ last'.op = "cache_get" => cache' = cache
       /\ \A id \in Ids, og \in Outcomes :
             (SafeGetTask(id, og) /\ id \in CacheKeys(cache)) =>
                 /\ cache' = cache
                 /\ last'.result = CacheGet(cache, id)
                 /\ last'.calls = <<>>
       /\ (last'.op = "cache_set" /\ last'.result.id \in CacheKeys(cache)) =>
             /\ KeyOrder(cache') = KeyOrder(cache)
             /\ NextVictim(cache') = NextVictim(cache)
             /\ CacheGet(cache', last'.result.id) = last'.result
       /\ (last'.op = "cache_prune" /\ Len(cache) > maxsize) =>
             /\ cache' = Tail(cache)
             /\ NextVictim(cache) \notin CacheKeys(cache')]_vars

\* The oldest entry of a cache over capacity has just been rewritten by set()
\* and is still the entry prune() removes next.
C25_Witness ==
    /\ last.op = "cache_set"
    /\ Len(cache) > maxsize
    /\ cache[1].key = last.result.id
    /\ cache[1].value = last.result
    /\ NextVictim(cache) = last.result.id

CreatedIn(calls) == \E k \in 1..Len(calls) : calls[k].fn = "create" /\ calls[k].ok

\* C26: after a publish for a header bag without task ID, the bag holds a task
\* ID exactly when tracking was decided and the create returned a task, and
\* the ID is that of the task just created; every remote call of a later
\* handler of the execution, the task the accessor returns and the task-ID
\* accessor carry the ID of the bag.
C26_HeaderHoldsCreatedId ==
    [][/\ last'.op = "publish" =>
            \A e \in Execs, sender \in SenderNames, manual_track \in BOOLEAN,
               auto_track \in BOOLEAN, oc \in Outcomes :
            Publish(e, sender, manual_track, auto_track, oc) =>
               /\ headers'[e].task_id # NoId <=> CreatedIn(last'.calls)
               /\ CreatedIn(last'.calls) =>
                     /\ manual_track \/ auto_track
                     /\ last'.calls = <<Call("create", headers'[e].task_id, "pending", TRUE)>>
                     /\ remote[headers'[e].task_id] = NoTask
                     /\ remote'[headers'[e].task_id].id = headers'[e].task_id
               /\ \A x \in Execs \ {e} : headers'[x] = headers[x]
       /\ last'.op \in SignalOps =>
             \A k \in 1..Len(last'.calls) : last'.calls[k].id = headers[last'.e].task_id
       /\ (last'.op = "accessor" /\ last'.result # NoTask) =>
             last'.result.id = headers[last'.e].task_id
       /\ \A e \in Execs :
             headers[e].present => taskbadger_task_id(World, e) = headers[e].task_id]_vars

\* A tracked publish has created a task and its ID is in the header bag.
C26_Witness ==
    /\ last.op = "publish"
    /\ HasId(last.e)
    /\ last.calls = <<Call("create", headers[last.e].task_id, "pending", TRUE)>>
    /\ remote[headers[last.e].task_id].status = "pending"

\* {exception: einfo} laid over data: every leaf of data outside 'exception'
\* is kept, 'exception' is einfo.
WithException(data, einfo) ==
    {l \in data : l.path[1] # "exception"} \cup {Leaf(<<"exception">>, einfo)}

\* The task _update_task resolves for execution e in the current state, given
\* the remote calls it then made: the memoized copy, else the cached copy,
\* else what a successful get returned.
ResolvedBy(e, calls) ==
    LET id == headers[e].task_id
    IN  IF has_taskbadger_task(e) /\ request_task[e].task # NoTask THEN request_task[e].task
        ELSE IF id \in CacheKeys(cache) THEN CacheGet(cache, id)
        ELSE IF \E k \in 1..Len(calls) : calls[k] = Call("get", id, "none", TRUE)
             THEN remote[id]
        ELSE NoTask

\* The data sent by the calls of one _update_task run w1 for execution e.
SentAsClaimed(e, einfo, w1) ==
    \A k \in 1..Len(w1.calls) :
        /\ w1.calls[k].fn = "get" => w1.sent[k] = EmptyData
        /\ w1.calls[k].fn = "update" =>
              IF einfo = ""
              THEN w1.sent[k] = EmptyData
              ELSE /\ w1.sent[k] = WithException(ResolvedBy(e, w1.calls).data, einfo)
                   /\ w1.calls[k].ok => w1.remote[w1.calls[k].id].data = w1.sent[k]

C28_HeaderBagFrame ==
    /\ enter_session(World).headers = headers
    /\ \A e \in Execs :
          /\ exit_session(World, e).headers = headers
          /\ \A einfo \in EinfoValues, og \in GetOutcomes, ou \in Outcomes :
                /\ \A status \in HandlerStatuses :
                      _update_task(World, e, status, einfo, og, ou).headers = headers
                /\ task_prerun_handler(World, e, og, ou).headers = headers
                /\ task_success_handler(World, e, og, ou).headers = headers
                /\ task_failure_handler(World, e, einfo, og, ou).headers = headers
                /\ task_retry_handler(World, e, einfo, og, ou).headers = headers

\* A terminal handler has sent its update and the bag still carries the
\* task ID the update was sent for.
C28_Witness ==
    /\ last.op \in TerminalOps
    /\ HasId(last.e)
    /\ \E k \in 1..Len(last.calls) :
          /\ last.calls[k].fn = "update" /\ last.calls[k].ok
          /\ last.calls[k].id = headers[last.e].task_id

\* When executions run one at a time: every update of a handler is issued
\* with the session open.
SessionOpenAtUpdates ==
    last.op \in SignalOps =>
        \A k \in 1..Len(last.calls) : last.calls[k].fn = "update" => last.open[k]

\* No __enter__ on an open session, no __exit__ on a closed one.
SessionCallsMatched ==
    \A k \in 1..Len(last.session_calls) :
        last.session_calls[k].was_open = (last.session_calls[k].fn = "exit")

\* The session is open once pre-run has issued its update and the work body
\* leaves it as it is.
SessionHeldThroughBody ==
    /\ (last.op = "prerun" /\ UpdateIssued(last.calls, headers[last.e].task_id))
          => session_client
    /\ last.op \in BodyOps => last.session_calls = <<>>

====
